---- MODULE Spec2Model ----
(***************************************************************************)
(* A model of the NLP learning platform: document ingestion into the       *)
(* persistent "nlp_documents" collection (data_processing.py), the         *)
(* Streamlit script of app.py with its chat and study-material tabs, and   *)
(* the helpers of chatbot.py and study_materials.py.                       *)
(*                                                                         *)
(* A Python str is modelled as a sequence of one-character strings, so     *)
(* that lower-casing, substring search, regular-expression rewrites and    *)
(* f-string formatting are computed character by character.                *)
(***************************************************************************)
EXTENDS Integers, Sequences, FiniteSets, TLC

VARIABLES
  call,               \* a direct call of a pure helper: its arguments and result
  pdf_files,          \* the files held by the sidebar's st.file_uploader
  collection,         \* the passages stored in the Chroma collection "nlp_documents"
  cache,              \* the memo of @st.cache_resource on create_educational_vectordb
  uploaded_filenames, \* st.session_state.uploaded_filenames
  pc,                 \* where the script run of main() stands
  vectordb,           \* main's local vectordb (also st.session_state["vectordb"])
  flagged_files,      \* main's local flagged_files
  build,              \* the call of get_chroma_index_for_pdf made by this run, if any
  chat_history,       \* st.session_state.chat_history
  entry,              \* the query entry point this run went through, if any
  search_results,     \* the local search_results of that entry point
  context,            \* its local context
  request,            \* the request it handed to client.chat.completions.create
  received,           \* the deltas the response stream has delivered, in arrival order
  full_response,      \* the local full_response of the streaming loop
  placeholder,        \* what message_placeholder shows
  displays,           \* what message_placeholder showed inside the loop, in order
  returned,           \* the value process_chat_message returned
  content,            \* the value generate_study_materials returned
  downloads,          \* whether main called generate_downloads(content)
  study_topic,        \* the topic in st.text_input when "Generate Materials" was pressed
  study_response,     \* what the generation service answered to the structured request
  download_error      \* the key generate_downloads(content) failed to find, if any

ingestvars_but_pc == <<pdf_files, collection, cache, uploaded_filenames, vectordb, flagged_files, build>>
ingestvars == <<ingestvars_but_pc, pc>>
queryvars == <<entry, search_results, context, request, received, full_response, placeholder,
               displays, returned, content, downloads, study_topic, study_response, download_error>>
vars == <<call, ingestvars, chat_history, queryvars>>

NoCall == [pc |-> "none", text_pages |-> <<>>, result |-> FALSE]

(***************************************************************************)
(* Python str primitives                                                   *)
(***************************************************************************)

\* str.lower() on the ASCII letters; every other character is unchanged
ToLower ==
  "A" :> "a" @@ "B" :> "b" @@ "C" :> "c" @@ "D" :> "d" @@ "E" :> "e" @@ "F" :> "f" @@ "G" :> "g" @@
  "H" :> "h" @@ "I" :> "i" @@ "J" :> "j" @@ "K" :> "k" @@ "L" :> "l" @@ "M" :> "m" @@ "N" :> "n" @@
  "O" :> "o" @@ "P" :> "p" @@ "Q" :> "q" @@ "R" :> "r" @@ "S" :> "s" @@ "T" :> "t" @@ "U" :> "u" @@
  "V" :> "v" @@ "W" :> "w" @@ "X" :> "x" @@ "Y" :> "y" @@ "Z" :> "z"

LowerMutant(text) == text

Lower(text) ==
  [i \in 1..Len(text) |-> IF text[i] \in DOMAIN ToLower THEN ToLower[text[i]] ELSE text[i]]

\* the Python test `kw in text` on two strings
Contains(text, kw) ==
  \E i \in 1..(Len(text) - Len(kw) + 1) : SubSeq(text, i, i + Len(kw) - 1) = kw

(***************************************************************************)
(* data_processing.py: the relevance filter                                *)
(***************************************************************************)

nlp_keywords ==
  {
    <<"t","o","k","e","n","i","z","a","t","i","o","n">>,
    <<"l","i","n","g","u","i","s","t","i","c","s">>,
    <<"l","a","n","g","u","a","g","e">>,
    <<"p","a","r","s","i","n","g">>,
    <<"s","y","n","t","a","x">>,
    <<"s","e","m","a","n","t","i","c">>,
    <<"s","e","m","a","n","t","i","c","s">>,
    <<"n","l","p">>,
    <<"n","a","t","u","r","a","l"," ","l","a","n","g","u","a","g","e"," ","p","r","o","c","e","s","s","i","n","g">>,
    <<"c","o","m","p","u","t","a","t","i","o","n","a","l"," ","l","i","n","g","u","i","s","t","i","c","s">>,
    <<"t","e","x","t"," ","a","n","a","l","y","s","i","s">>,
    <<"l","a","n","g","u","a","g","e"," ","m","o","d","e","l">>,
    <<"m","a","c","h","i","n","e"," ","t","r","a","n","s","l","a","t","i","o","n">>,
    <<"t","r","a","n","s","l","a","t","i","o","n">>,
    <<"s","e","n","t","i","m","e","n","t"," ","a","n","a","l","y","s","i","s">>,
    <<"n","a","m","e","d"," ","e","n","t","i","t","y"," ","r","e","c","o","g","n","i","t","i","o","n">>,
    <<"p","a","r","t"," ","o","f"," ","s","p","e","e","c","h">>,
    <<"s","e","n","t","i","m","e","n","t">>,
    <<"m","o","r","p","h","o","l","o","g","y">>,
    <<"p","h","o","n","e","t","i","c","s">>,
    <<"p","h","o","n","o","l","o","g","y">>,
    <<"p","r","a","g","m","a","t","i","c","s">>,
    <<"c","o","r","p","u","s">>,
    <<"r","e","c","o","g","n","i","t","i","o","n">>,
    <<"m","a","c","h","i","n","e"," ","l","e","a","r","n","i","n","g">>,
    <<"d","e","e","p"," ","l","e","a","r","n","i","n","g">>,
    <<"t","e","x","t"," ","c","l","a","s","s","i","f","i","c","a","t","i","o","n">>,
    <<"l","e","a","r","n","i","n","g">>,
    <<"s","p","e","e","c","h"," ","r","e","c","o","g","n","i","t","i","o","n">>,
    <<"t","e","x","t"," ","g","e","n","e","r","a","t","i","o","n">>,
    <<"i","n","f","o","r","m","a","t","i","o","n"," ","e","x","t","r","a","c","t","i","o","n">>,
    <<"e","x","t","r","a","c","t","i","o","n">>,
    <<"w","o","r","d"," ","e","m","b","e","d","d","i","n","g","s">>,
    <<"l","a","n","g","u","a","g","e"," ","u","n","d","e","r","s","t","a","n","d","i","n","g">>,
    <<"t","e","x","t"," ","s","u","m","m","a","r","i","z","a","t","i","o","n">>,
    <<"t","e","x","t">>,
    <<"q","u","e","s","t","i","o","n"," ","a","n","s","w","e","r","i","n","g">>,
    <<"t","o","p","i","c"," ","m","o","d","e","l","i","n","g">>,
    <<"t","e","x","t"," ","m","i","n","i","n","g">>,
    <<"s","e","m","a","n","t","i","c"," ","a","n","a","l","y","s","i","s">>,
    <<"s","y","n","t","a","c","t","i","c"," ","a","n","a","l","y","s","i","s">>,
    <<"c","o","r","p","u","s"," ","l","i","n","g","u","i","s","t","i","c","s">>,
    <<"d","i","s","c","o","u","r","s","e"," ","a","n","a","l","y","s","i","s">>,
    <<"m","a","c","h","i","n","e">>,
    <<"m","o","r","p","h","o","l","o","g","i","c","a","l"," ","a","n","a","l","y","s","i","s">>,
    <<"p","a","r","t"," ","o","f"," ","s","p","e","e","c","h"," ","t","a","g","g","i","n","g">>,
    <<"d","e","p","e","n","d","e","n","c","y"," ","p","a","r","s","i","n","g">>,
    <<"t","r","a","n","s","f","o","r","m","e","r"," ","m","o","d","e","l","s">>,
    <<"b","e","r","t">>,
    <<"g","p","t">>,
    <<"w","o","r","d","2","v","e","c">>,
    <<"l","a","n","g","u","a","g","e"," ","r","e","p","r","e","s","e","n","t","a","t","i","o","n">>,
    <<"t","e","x","t"," ","p","r","e","p","r","o","c","e","s","s","i","n","g">>,
    <<"s","e","q","u","e","n","c","e"," ","l","a","b","e","l","i","n","g">>,
    <<"n","e","u","r","a","l"," ","n","e","t","w","o","r","k","s">>,
    <<"l","e","m","m","a","t","i","z","a","t","i","o","n">>,
    <<"l","a","n","g","u","a","g","e"," ","g","e","n","e","r","a","t","i","o","n">>,
    <<"t","e","x","t"," ","s","i","m","i","l","a","r","i","t","y">>,
    <<"d","o","c","u","m","e","n","t"," ","c","l","a","s","s","i","f","i","c","a","t","i","o","n">>,
    <<"i","n","f","o","r","m","a","t","i","o","n"," ","r","e","t","r","i","e","v","a","l">>,
    <<"n","a","t","u","r","a","l"," ","l","a","n","g","u","a","g","e"," ","u","n","d","e","r","s","t","a","n","d","i","n","g">>,
    <<"c","o","n","t","e","x","t","u","a","l"," ","e","m","b","e","d","d","i","n","g","s">>,
    <<"d","i","a","l","o","g"," ","s","y","s","t","e","m","s">>,
    <<"z","e","r","o","-","s","h","o","t"," ","l","e","a","r","n","i","n","g">>,
    <<"f","e","w","-","s","h","o","t"," ","l","e","a","r","n","i","n","g">>,
    <<"t","r","a","n","s","f","e","r"," ","l","e","a","r","n","i","n","g">>,
    <<"a","d","v","e","r","s","a","r","i","a","l"," ","e","x","a","m","p","l","e","s">>,
    <<"a","t","t","e","n","t","i","o","n"," ","m","e","c","h","a","n","i","s","m","s">>,
    <<"v","e","c","t","o","r"," ","s","p","a","c","e"," ","m","o","d","e","l","s">>,
    <<"k","n","o","w","l","e","d","g","e"," ","g","r","a","p","h","s">>,
    <<"s","e","m","a","n","t","i","c"," ","w","e","b">>,
    <<"a","s","r">>,
    <<"a","u","t","o","m","a","t","i","c"," ","s","p","e","e","c","h"," ","r","e","c","o","g","n","i","t","i","o","n">>,
    <<"o","c","r">>,
    <<"o","p","t","i","c","a","l"," ","c","h","a","r","a","c","t","e","r"," ","r","e","c","o","g","n","i","t","i","o","n">>,
    <<"n","l","p"," ","p","i","p","e","l","i","n","e","s">>,
    <<"p","i","p","e","l","i","n","e","s">>,
    <<"f","i","n","e","-","t","u","n","i","n","g">>,
    <<"d","a","t","a"," ","a","u","g","m","e","n","t","a","t","i","o","n">>,
    <<"f","e","a","t","u","r","e"," ","e","x","t","r","a","c","t","i","o","n">>,
    <<"a","n","a","p","h","o","r","a"," ","r","e","s","o","l","u","t","i","o","n">>,
    <<"c","o","r","e","f","e","r","e","n","c","e"," ","r","e","s","o","l","u","t","i","o","n">>,
    <<"c","r","o","s","s","-","l","i","n","g","u","a","l"," ","m","o","d","e","l","s">>,
    <<"m","u","l","t","i","l","i","n","g","u","a","l"," ","m","o","d","e","l","s">>,
    <<"w","o","r","d"," ","s","e","n","s","e"," ","d","i","s","a","m","b","i","g","u","a","t","i","o","n">>,
    <<"l","a","n","g","u","a","g","e"," ","i","d","e","n","t","i","f","i","c","a","t","i","o","n">>,
    <<"s","e","m","a","n","t","i","c"," ","r","o","l","e"," ","l","a","b","e","l","i","n","g">>,
    <<"s","t","o","p"," ","w","o","r","d"," ","r","e","m","o","v","a","l">>,
    <<"t","f","-","i","d","f">>,
    <<"n","-","g","r","a","m","s">>,
    <<"b","a","g","-","o","f","-","w","o","r","d","s">>,
    <<"s","e","q","u","e","n","c","e","-","t","o","-","s","e","q","u","e","n","c","e"," ","m","o","d","e","l","s">>,
    <<"p","r","e","-","t","r","a","i","n","e","d"," ","m","o","d","e","l","s">>,
    <<"r","e","c","u","r","r","e","n","t"," ","n","e","u","r","a","l"," ","n","e","t","w","o","r","k","s">>,
    <<"l","o","n","g"," ","s","h","o","r","t","-","t","e","r","m"," ","m","e","m","o","r","y"," ","n","e","t","w","o","r","k","s">>,
    <<"a","u","t","o","m","a","t","i","c"," ","t","e","x","t"," ","g","e","n","e","r","a","t","i","o","n">>,
    <<"s","p","e","e","c","h"," ","s","y","n","t","h","e","s","i","s">>,
    <<"i","n","t","e","r","a","c","t","i","v","e"," ","a","i">>,
    <<"l","e","x","i","c","a","l"," ","s","e","m","a","n","t","i","c","s">>,
    <<"n","a","t","u","r","a","l"," ","l","a","n","g","u","a","g","e"," ","g","e","n","e","r","a","t","i","o","n">>,
    <<"c","o","n","s","t","i","t","u","e","n","c","y">>,
    <<"r","e","c","u","r","s","i","o","n">>,
    <<"d","i","s","c","r","e","t","e","n","e","s","s">>,
    <<"p","r","o","d","u","c","t","i","v","i","t","y">>,
    <<"a","r","b","i","t","r","a","r","i","n","e","s","s">>,
    <<"r","e","l","i","a","n","c","e"," ","o","n"," ","c","o","n","t","e","x","t">>,
    <<"v","a","r","i","a","b","i","l","i","t","y">>,
    <<"d","e","s","c","r","i","p","t","i","v","e"," ","a","p","p","r","o","a","c","h">>,
    <<"d","e","f","i","n","i","n","g"," ","l","a","n","g","u","a","g","e">>,
    <<"d","i","v","e","r","s","i","t","y"," ","o","f"," ","l","i","n","g","u","i","s","t","i","c","s">>,
    <<"a","r","t","i","c","u","l","a","t","o","r","y"," ","p","h","o","n","e","t","i","c","s">>,
    <<"v","o","c","a","l"," ","t","r","a","c","t">>,
    <<"a","r","t","i","c","u","l","a","t","i","o","n">>,
    <<"m","a","n","n","e","r","s"," ","o","f"," ","a","r","t","i","c","u","l","a","t","i","o","n">>,
    <<"t","r","a","n","s","c","r","i","p","t","i","o","n">>,
    <<"c","o","n","s","o","n","a","n","t","s">>,
    <<"v","o","w","e","l","s">>,
    <<"s","u","p","r","a","s","e","g","m","e","n","t","a","l","s">>,
    <<"l","e","n","g","t","h">>,
    <<"t","o","n","e">>,
    <<"i","n","t","o","n","a","t","i","o","n">>,
    <<"s","y","l","l","a","b","l","e"," ","s","t","r","u","c","t","u","r","e">>,
    <<"s","t","r","e","s","s">>,
    <<"a","c","o","u","s","t","i","c"," ","p","h","o","n","e","t","i","c","s">>,
    <<"s","o","u","n","d"," ","w","a","v","e","s">>,
    <<"h","e","a","r","i","n","g">>,
    <<"m","e","a","s","u","r","i","n","g"," ","s","p","e","e","c","h">>,
    <<"p","h","o","n","e","m","e","s">>,
    <<"a","l","l","o","p","h","o","n","e","s">>,
    <<"p","h","o","n","o","t","a","c","t","i","c","s">>,
    <<"a","l","t","e","r","n","a","t","i","o","n">>,
    <<"p","h","o","n","o","l","o","g","i","c","a","l"," ","a","l","t","e","r","n","a","t","i","o","n","s">>,
    <<"m","o","r","p","h","e","m","e","s">>,
    <<"a","f","f","i","x","a","t","i","o","n">>,
    <<"r","e","d","u","p","l","i","c","a","t","i","o","n">>,
    <<"a","b","l","a","u","t">>,
    <<"s","u","p","p","l","e","t","i","o","n">>,
    <<"d","e","r","i","v","a","t","i","o","n">>,
    <<"i","n","f","l","e","c","t","i","o","n">>,
    <<"p","r","o","j","e","c","t","i","o","n">>,
    <<"m","e","r","g","e","r">>,
    <<"a","d","j","u","n","c","t","i","o","n">>,
    <<"m","o","v","e","m","e","n","t">>,
    <<"b","i","n","d","i","n","g"," ","t","h","e","o","r","y">>,
    <<"h","e","a","d","-","c","o","m","p","l","e","m","e","n","t"," ","o","r","d","e","r">>,
    <<"t","h","e","m","a","t","i","c"," ","r","o","l","e","s">>,
    <<"l","o","g","i","c","a","l"," ","w","o","r","d","s">>,
    <<"q","u","a","n","t","i","f","i","c","a","t","i","o","n">>,
    <<"i","n","d","e","x","i","c","a","l","i","t","y">>,
    <<"c","o","n","t","e","x","t","-","d","e","p","e","n","d","e","n","c","y">>,
    <<"a","n","a","p","h","o","r","a">>,
    <<"p","r","e","s","u","p","p","o","s","i","t","i","o","n">>,
    <<"g","r","i","c","e","a","n"," ","m","a","x","i","m","s">>,
    <<"i","m","p","l","i","c","a","t","u","r","e">>,
    <<"s","p","e","e","c","h"," ","a","c","t","s">>,
    <<"n","a","r","r","a","t","i","v","e","s">>,
    <<"p","a","r","t","i","c","i","p","a","t","i","o","n"," ","f","r","a","m","e","w","o","r","k","s">>,
    <<"a","d","j","a","c","e","n","c","y"," ","p","a","i","r","s">>,
    <<"d","i","s","c","o","u","r","s","e"," ","m","a","r","k","e","r","s">>,
    <<"l","a","n","g","u","a","g","e"," ","a","c","q","u","i","s","i","t","i","o","n">>,
    <<"c","r","i","t","i","c","a","l"," ","p","e","r","i","o","d"," ","h","y","p","o","t","h","e","s","i","s">>,
    <<"f","i","r","s","t"," ","l","a","n","g","u","a","g","e"," ","a","c","q","u","i","s","i","t","i","o","n">>,
    <<"s","e","c","o","n","d"," ","l","a","n","g","u","a","g","e"," ","a","c","q","u","i","s","i","t","i","o","n">>,
    <<"b","i","l","i","n","g","u","a","l","i","s","m">>,
    <<"c","o","d","e","-","s","w","i","t","c","h","i","n","g">>,
    <<"n","e","u","r","o","l","i","n","g","u","i","s","t","i","c","s">>,
    <<"p","s","y","c","h","o","l","i","n","g","u","i","s","t","i","c","s">>,
    <<"p","a","r","s","i","n","g"," ","s","t","r","a","t","e","g","i","e","s">>,
    <<"s","y","n","t","a","c","t","i","c"," ","a","m","b","i","g","u","i","t","y">>,
    <<"s","e","m","a","n","t","i","c"," ","a","m","b","i","g","u","i","t","y">>,
    <<"p","r","a","g","m","a","t","i","c"," ","i","n","f","e","r","e","n","c","e">>,
    <<"c","o","l","l","o","c","a","t","i","o","n","s">>,
    <<"f","i","n","i","t","e"," ","s","t","a","t","e"," ","a","u","t","o","m","a","t","a">>,
    <<"c","o","n","t","e","x","t","-","f","r","e","e"," ","g","r","a","m","m","a","r">>
  }

\* for text, _ in text_pages: return True on the first page with a keyword
RECURSIVE is_nlp_relevant(_)
is_nlp_relevant(text_pages) ==
  IF text_pages = <<>> THEN FALSE
  ELSE LET text_lower == Lower(Head(text_pages)[1])
       IN  IF \E keyword \in nlp_keywords : Contains(text_lower, keyword)
           THEN TRUE
           ELSE is_nlp_relevant(Tail(text_pages))

\* the characters str.split() cuts at
IsWhitespace(c) == c \in {" ", "\n", "\t", "\r", "\f"}

\* set(text.split()): the maximal runs of non-whitespace characters of text
\* from position i on, word being the run read so far
RECURSIVE split(_, _, _, _)
split(text, i, word, words) ==
  IF i > Len(text)
  THEN (IF word = <<>> THEN words ELSE words \cup {word})
  ELSE IF IsWhitespace(text[i])
  THEN split(text, i + 1, <<>>, IF word = <<>> THEN words ELSE words \cup {word})
  ELSE split(text, i + 1, Append(word, text[i]), words)

\* the mutant: the input is split without being lower-cased
is_topic_nlp_cased(user_input) ==
  split(user_input, 1, <<>>, {}) \cap nlp_keywords # {}

\* input_words = set(user_input.lower().split()); input_words & nlp_keywords
is_topic_nlp(user_input) ==
  split(Lower(user_input), 1, <<>>, {}) \cap nlp_keywords # {}

(***************************************************************************)
(* data_processing.py: parsing, chunking and the collection build          *)
(***************************************************************************)

Digits == {"0","1","2","3","4","5","6","7","8","9"}

\* \w and \s of Python's re on the characters of the model
IsWord(c) == c \in (DOMAIN ToLower) \cup {ToLower[u] : u \in DOMAIN ToLower} \cup Digits \cup {"_"}
IsSpace(c) == c \in {" ", "\n", "\t", "\r"}

RECURSIVE WordRunEnd(_, _)
WordRunEnd(text, i) ==
  IF i + 1 <= Len(text) /\ IsWord(text[i + 1]) THEN WordRunEnd(text, i + 1) ELSE i

\* re.sub(r"(\w+)-\n(\w+)", r"\1\2", text), scanning from position i; a match
\* may not reach back before lo, the end of the previous match
RECURSIVE SubHyphen(_, _, _)
SubHyphen(text, i, lo) ==
  IF i > Len(text) THEN <<>>
  ELSE IF /\ text[i] = "-"
          /\ i + 2 <= Len(text)
          /\ text[i + 1] = "\n"
          /\ IsWord(text[i + 2])
          /\ i - 1 >= lo
          /\ IsWord(text[i - 1])
       THEN LET e == WordRunEnd(text, i + 2)
            IN  SubSeq(text, i + 2, e) \o SubHyphen(text, e + 1, e + 1)
       ELSE <<text[i]>> \o SubHyphen(text, i + 1, lo)

RECURSIVE LStrip(_)
LStrip(text) == IF text # <<>> /\ IsSpace(Head(text)) THEN LStrip(Tail(text)) ELSE text

RECURSIVE RStrip(_)
RStrip(text) ==
  IF text # <<>> /\ IsSpace(text[Len(text)]) THEN RStrip(SubSeq(text, 1, Len(text) - 1)) ELSE text

\* str.strip()
Strip(text) == RStrip(LStrip(text))

\* re.sub(r"(?<!\n\s)\n(?!\s\n)", " ", text)
SubNewline(text) ==
  [i \in 1..Len(text) |->
     IF /\ text[i] = "\n"
        /\ ~(i >= 3 /\ text[i - 2] = "\n" /\ IsSpace(text[i - 1]))
        /\ ~(i + 2 <= Len(text) /\ IsSpace(text[i + 1]) /\ text[i + 2] = "\n")
     THEN " " ELSE text[i]]

RECURSIVE SpaceRunEnd(_, _)
SpaceRunEnd(text, i) ==
  IF i + 1 <= Len(text) /\ IsSpace(text[i + 1]) THEN SpaceRunEnd(text, i + 1) ELSE i

\* re.sub(r"\n\s*\n", "\n\n", text), scanning from position i: the greedy \s*
\* backs off to the last newline of the whitespace run
RECURSIVE SubBlankLines(_, _)
SubBlankLines(text, i) ==
  IF i > Len(text) THEN <<>>
  ELSE LET r == SpaceRunEnd(text, i)
           closing == {j \in (i + 1)..r : text[j] = "\n"}
       IN  IF text[i] = "\n" /\ closing # {}
           THEN LET j == CHOOSE k \in closing : \A l \in closing : l <= k
                IN  <<"\n", "\n">> \o SubBlankLines(text, j + 1)
           ELSE <<text[i]>> \o SubBlankLines(text, i + 1)

\* the three rewrites parse_pdf applies to a page's extracted text
Normalize(text) == SubBlankLines(SubNewline(Strip(SubHyphen(text, 1, 1))), 1)

\* A file is what PdfReader makes of its bytes: the extracted text of each
\* page, the page (if any) whose extraction raises, and whether the text
\* splitter raises on it.  A call that raises returns [raised |-> TRUE].
RECURSIVE ParsePages(_, _, _)
ParsePages(file, i, output) ==
  IF i > Len(file.pages) THEN [raised |-> FALSE, output |-> output]
  ELSE IF file.unreadable_page = i THEN [raised |-> TRUE, output |-> <<>>]
  ELSE ParsePages(file, i + 1, Append(output, <<Normalize(file.pages[i]), i>>))

\* the mutant: a page whose extraction fails is skipped
RECURSIVE ParsePagesSkipping(_, _, _)
ParsePagesSkipping(file, i, output) ==
  IF i > Len(file.pages) THEN [raised |-> FALSE, output |-> output]
  ELSE IF file.unreadable_page = i THEN ParsePagesSkipping(file, i + 1, output)
  ELSE ParsePagesSkipping(file, i + 1, Append(output, <<Normalize(file.pages[i]), i>>))

parse_pdf_skipping(file, filename) == ParsePagesSkipping(file, 1, <<>>)

parse_pdf(file, filename) == ParsePages(file, 1, <<>>)

\* RecursiveCharacterTextSplitter(chunk_size=4000, ...).split_text: the
\* pieces of a text shorter than chunk_size are merged back into one stripped
\* chunk, and an empty chunk is dropped
chunk_size == 4000

\* A page too long for one chunk is written with the mark LongRun, which
\* stands for a stretch of text after which the splitter ends a chunk.
LongRun == "LONGRUN"

\* the stretches of text from position i on, piece being the one read so far
RECURSIVE Pieces(_, _, _)
Pieces(text, i, piece) ==
  IF i > Len(text) THEN <<piece>>
  ELSE IF text[i] = LongRun THEN <<Append(piece, text[i])>> \o Pieces(text, i + 1, <<>>)
  ELSE Pieces(text, i + 1, Append(piece, text[i]))

\* the pieces stripped, the empty ones dropped
RECURSIVE Chunks(_)
Chunks(pieces) ==
  IF pieces = <<>> THEN <<>>
  ELSE (IF Strip(Head(pieces)) # <<>> THEN <<Strip(Head(pieces))>> ELSE <<>>) \o Chunks(Tail(pieces))

split_text(text) ==
  IF Len(text) < chunk_size THEN Chunks(Pieces(text, 1, <<>>)) ELSE <<>>

Document(page_content, filename, page_number, i) ==
  [page_content |-> page_content,
   metadata |-> [filename |-> filename, page |-> page_number, chunk |-> i]]

\* the mutant: the chunk index runs on over the pages
RECURSIVE text_to_docs_loop_running(_, _, _)
text_to_docs_loop_running(text_pages, filename, docs) ==
  IF text_pages = <<>> THEN docs
  ELSE LET text == Head(text_pages)[1]
           page_number == Head(text_pages)[2]
           chunks == split_text(text)
       IN  text_to_docs_loop_running(Tail(text_pages), filename,
             docs \o [i \in 1..Len(chunks) |->
                        Document(chunks[i], filename, page_number, Len(docs) + i - 1)])

RECURSIVE text_to_docs_loop(_, _, _)
text_to_docs_loop(text_pages, filename, docs) ==
  IF text_pages = <<>> THEN docs
  ELSE LET text == Head(text_pages)[1]
           page_number == Head(text_pages)[2]
           chunks == split_text(text)
       IN  text_to_docs_loop(Tail(text_pages), filename,
             docs \o [i \in 1..Len(chunks) |-> Document(chunks[i], filename, page_number, i - 1)])

\* splitter_raises: the splitter raises on this document's text
text_to_docs(text_pages, filename, splitter_raises) ==
  IF splitter_raises /\ text_pages # <<>>
  THEN [raised |-> TRUE, docs |-> <<>>]
  ELSE [raised |-> FALSE, docs |-> text_to_docs_loop(text_pages, filename, <<>>)]

Flag(acc, filename) == [acc EXCEPT !.flagged_files = Append(@, filename)]

\* the mutant: the name is appended to successful_files before text_to_docs
\* is called, so a document the splitter raises on is in both lists
ExtendAppendingFirst(acc, filename, made) ==
  IF made.raised
  THEN [acc EXCEPT !.flagged_files = Append(@, filename),
                   !.successful_files = Append(@, filename)]
  ELSE [acc EXCEPT !.documents = @ \o made.docs,
                   !.successful_files = Append(@, filename)]

\* documents.extend(text_to_docs(...)); successful_files.append(filename),
\* unless text_to_docs raised
Extend(acc, filename, made) ==
  IF made.raised THEN Flag(acc, filename)
  ELSE [acc EXCEPT !.documents = @ \o made.docs,
                   !.successful_files = Append(@, filename)]

Admit(acc, file, filename, parsed) ==
  IF parsed.raised THEN Flag(acc, filename)
  ELSE IF is_nlp_relevant(parsed.output)
       THEN Extend(acc, filename, text_to_docs(parsed.output, filename, file.unsplittable))
       ELSE Flag(acc, filename)

\* the body of `for file, filename in zip(files, filenames)` for one pair
ProcessOne(file, filename, acc) == Admit(acc, file, filename, parse_pdf(file, filename))

Raises(file, parsed) ==
  parsed.raised \/ (is_nlp_relevant(parsed.output) /\ file.unsplittable)

\* the mutant: the first document that raises ends the loop
RECURSIVE ProcessBatchAborting(_, _, _)
ProcessBatchAborting(files, filenames, acc) ==
  IF files = <<>> \/ filenames = <<>> THEN acc
  ELSE IF Raises(Head(files), parse_pdf(Head(files), Head(filenames)))
       THEN ProcessOne(Head(files), Head(filenames), acc)
       ELSE ProcessBatchAborting(Tail(files), Tail(filenames),
                                 ProcessOne(Head(files), Head(filenames), acc))

RECURSIVE ProcessBatch(_, _, _)
ProcessBatch(files, filenames, acc) ==
  IF files = <<>> \/ filenames = <<>> THEN acc
  ELSE ProcessBatch(Tail(files), Tail(filenames),
                    ProcessOne(Head(files), Head(filenames), acc))

NoLists == [documents |-> <<>>, flagged_files |-> <<>>, successful_files |-> <<>>]

\* the mutant: the collection is replaced by the new passages
AddDocumentsReplacing(lists, embed_up) ==
  IF lists.documents # <<>> /\ ~embed_up
  THEN [raised |-> TRUE, stage |-> "add", lists |-> lists, collection |-> collection]
  ELSE [raised |-> FALSE, stage |-> "return", lists |-> lists,
        collection |-> IF lists.documents # <<>> THEN lists.documents ELSE collection]

\* `if documents: vectordb.add_documents(documents)` and the return.
\* add_documents embeds every passage before it writes any, so a call the
\* embedding service does not answer raises with nothing written.
AddDocuments(lists, embed_up) ==
  IF lists.documents # <<>> /\ ~embed_up
  THEN [raised |-> TRUE, stage |-> "add", lists |-> lists, collection |-> collection]
  ELSE [raised |-> FALSE, stage |-> "return", lists |-> lists,
        collection |-> collection \o lists.documents]

\* get_chroma_index_for_pdf.  chroma_up: Chroma(...) can be constructed;
\* embed_up: the embedding service answers.  Returns whether the call
\* raised, the lists it had built and the collection afterwards.
get_chroma_index_for_pdf(files, filenames, chroma_up, embed_up) ==
  IF ~chroma_up
  THEN [raised |-> TRUE, stage |-> "init", lists |-> NoLists, collection |-> collection]
  ELSE AddDocuments(ProcessBatch(files, filenames, NoLists), embed_up)

None == "None"
Chroma == "Chroma"

RECURSIVE AppendMissing(_, _)
AppendMissing(names, new) ==
  IF new = <<>> THEN names
  ELSE AppendMissing(IF \E i \in 1..Len(names) : names[i] = Head(new)
                     THEN names ELSE Append(names, Head(new)),
                     Tail(new))

NoBuild ==
  [called |-> FALSE, files |-> <<>>, filenames |-> <<>>, raised |-> FALSE, stage |-> "none",
   lists |-> NoLists, before |-> <<>>]

\* what create_educational_vectordb does with the outcome `got` of
\* get_chroma_index_for_pdf: the try/except around it
Returned(files, filenames, got) ==
  [value |-> IF got.raised
             THEN [vectordb |-> None, flagged_files |-> <<>>]
             ELSE [vectordb |-> Chroma, flagged_files |-> got.lists.flagged_files],
   collection |-> got.collection,
   uploaded_filenames |->
     IF got.raised THEN uploaded_filenames
     ELSE AppendMissing(uploaded_filenames, got.lists.successful_files),
   build |-> [called |-> TRUE, files |-> files, filenames |-> filenames,
              raised |-> got.raised, stage |-> got.stage, lists |-> got.lists,
              before |-> collection]]

\* the body of create_educational_vectordb, run on a cache miss
create_educational_vectordb_body(files, filenames, chroma_up, embed_up) ==
  Returned(files, filenames, get_chroma_index_for_pdf(files, filenames, chroma_up, embed_up))

Memoized(key, ran) ==
  [value |-> ran.value,
   collection |-> ran.collection,
   uploaded_filenames |-> ran.uploaded_filenames,
   cache |-> cache \cup {[key |-> key, value |-> ran.value]},
   build |-> ran.build]

\* @st.cache_resource: a call with arguments seen before returns the value
\* returned then and does not run the body
create_educational_vectordb(files, filenames, chroma_up, embed_up) ==
  IF \E e \in cache : e.key = <<files, filenames>>
  THEN [value |-> (CHOOSE e \in cache : e.key = <<files, filenames>>).value,
        collection |-> collection,
        uploaded_filenames |-> uploaded_filenames,
        cache |-> cache,
        build |-> NoBuild]
  ELSE Memoized(<<files, filenames>>,
                create_educational_vectordb_body(files, filenames, chroma_up, embed_up))

(***************************************************************************)
(* app.py: the sidebar of main()                                           *)
(***************************************************************************)

HardcodedName == <<"A","n"," ","I","n","t","r","o","d","u","c","t","i","o","n"," ","t","o"," ","L","a","n","g","u","a","g","e"," ","a","n","d"," ","L","i","n","g","u","i","s","t","i","c","s",".","p","d","f">>

\* An_Introduction_to_Language_and_Linguistics.pdf as PdfReader reads it
hardcoded_pdf_data ==
  [pages |-> <<<<"L","a","n","-","\n","g","u","a","g","e">>>>, unreadable_page |-> 0, unsplittable |-> FALSE]

\* the files a user may upload, in the order the uploader lists them: one
\* whose second page cannot be extracted, one the splitter raises on, one
\* without any keyword, and an admitted one of two pages
SampleUploads ==
  << [name |-> <<"b","a","d",".","p","d","f">>,
      data |-> [pages |-> <<<<"N","L","P">>,<<"x">>>>, unreadable_page |-> 2, unsplittable |-> FALSE]],
     [name |-> <<"b","i","g",".","p","d","f">>,
      data |-> [pages |-> <<<<"n","l","p">>>>, unreadable_page |-> 0, unsplittable |-> TRUE]],
     [name |-> <<"c","o","o","k",".","p","d","f">>,
      data |-> [pages |-> <<<<"s","t","e","w">>>>, unreadable_page |-> 0, unsplittable |-> FALSE]],
     [name |-> <<"n","l","p",".","p","d","f">>,
      data |-> [pages |-> <<<<"c","a","t">>,<<"s","y","n","t","a","x","\n","t","r","e","e","s">>>>, unreadable_page |-> 0, unsplittable |-> FALSE]] >>

\* the most files held by the uploader at once
MaxUploads == 2

\* the most distinct batches built (cache misses) in one process
MaxBuilds == 2

RECURSIVE Pick(_, _, _)
Pick(s, I, i) ==
  IF i > Len(s) THEN <<>>
  ELSE (IF i \in I THEN <<s[i]>> ELSE <<>>) \o Pick(s, I, i + 1)

UploadChoices ==
  {Pick(SampleUploads, I, 1) :
     I \in {J \in SUBSET (1..Len(SampleUploads)) : Cardinality(J) <= MaxUploads}}

process_uploads(files_in) ==
  [files |-> <<hardcoded_pdf_data>> \o [i \in 1..Len(files_in) |-> files_in[i].data],
   filenames |-> <<HardcodedName>> \o [i \in 1..Len(files_in) |-> files_in[i].name]]

\* display_upload_status: the names listed under "Current Learning Materials"
current_files(flagged) ==
  {uploaded_filenames[i] : i \in 1..Len(uploaded_filenames)}
    \ {flagged[i] : i \in 1..Len(flagged)}

\* vectordb, flagged_files = create_educational_vectordb(files, filenames)
Assign(r) ==
  /\ vectordb' = r.value.vectordb
  /\ flagged_files' = r.value.flagged_files
  /\ collection' = r.collection
  /\ cache' = r.cache
  /\ uploaded_filenames' = r.uploaded_filenames
  /\ build' = r.build

Build(batch, chroma_up, embed_up) ==
  /\ \/ \E e \in cache : e.key = <<batch.files, batch.filenames>>
     \/ Cardinality(cache) < MaxBuilds
  /\ Assign(create_educational_vectordb(batch.files, batch.filenames, chroma_up, embed_up))

\* main() from its start to the end of the sidebar block, after a valid key
RunSidebar(files_in) ==
  /\ \E chroma_up \in BOOLEAN, embed_up \in BOOLEAN :
       Build(process_uploads(files_in), chroma_up, embed_up)
  /\ pc' = "tabs"

\* a script run started by any widget other than the uploader
Rerun ==
  /\ pc = "idle"
  /\ RunSidebar(pdf_files)
  /\ UNCHANGED <<pdf_files, call, chat_history, queryvars>>

\* the user changes the uploaded files, which starts a script run
ChangeUploads ==
  /\ pc = "idle"
  /\ \E new \in UploadChoices :
       /\ new # pdf_files
       /\ pdf_files' = new
       /\ RunSidebar(new)
  /\ UNCHANGED <<call, chat_history, queryvars>>

(***************************************************************************)
(* app.py, chatbot.py, study_materials.py: retrieval and generation        *)
(***************************************************************************)

\* k of vectordb.similarity_search(..., k=3)
k == 3

Min(a, b) == IF a < b THEN a ELSE b

\* The answers similarity_search may give on the collection as it stands:
\* the embedding decides the ranking, so any k distinct stored passages (all
\* of them when fewer are stored) in any order.
Rankings ==
  {r \in [1..Min(k, Len(collection)) -> 1..Len(collection)] :
     \A i, j \in DOMAIN r : i # j => r[i] # r[j]}

similarity_search(ranking) == [i \in 1..Len(ranking) |-> collection[ranking[i]]]

DigitChars == <<"0","1","2","3","4","5","6","7","8","9">>

\* str(n) for a page number
RECURSIVE Str(_)
Str(n) == IF n < 10 THEN <<DigitChars[n + 1]>> ELSE Str(n \div 10) \o <<DigitChars[(n % 10) + 1]>>

\* f"[Source: {filename}, Page: {page}]"
SourceTag(filename, page) ==
  <<"[","S","o","u","r","c","e",":"," ">> \o filename \o <<","," ","P","a","g","e",":"," ">> \o Str(page) \o <<"]">>

\* the mutant: a passage is put before the ones already in the context
RECURSIVE ChatContextPrepending(_, _)
ChatContextPrepending(results, ctx) ==
  IF results = <<>> THEN ctx
  ELSE ChatContextPrepending(Tail(results),
         <<"\n">> \o Head(results).page_content \o <<"\n">>
           \o SourceTag(Head(results).metadata.filename, Head(results).metadata.page)
           \o <<"\n">> \o ctx)

\* for result in search_results:
\*     context += f"\n{result.page_content}\n[Source: {...}, Page: {...}]\n"
RECURSIVE ChatContext(_, _)
ChatContext(results, ctx) ==
  IF results = <<>> THEN ctx
  ELSE ChatContext(Tail(results),
         ctx \o <<"\n">> \o Head(results).page_content \o <<"\n">>
             \o SourceTag(Head(results).metadata.filename, Head(results).metadata.page)
             \o <<"\n">>)

\* generate_study_materials:
\*     context += f"\nFrom {filename}, Page {page}:\n"
\*     context += f"{result.page_content}\n"
RECURSIVE StudyContext(_, _)
StudyContext(results, ctx) ==
  IF results = <<>> THEN ctx
  ELSE StudyContext(Tail(results),
         ctx \o <<"\n","F","r","o","m"," ">> \o Head(results).metadata.filename
             \o <<","," ","P","a","g","e"," ">> \o Str(Head(results).metadata.page) \o <<":","\n">>
             \o Head(results).page_content \o <<"\n">>)

\* The fixed texts of the prompts are single elements, named by their text.
ChatSystemPrompt ==
  <<"You are an educational AI assistant specializing in NLP. Base your responses on the provided context and cite sources when possible.">>
ContextPrefix == <<"Context from documents: ">>
StudySystemPrompt ==
  <<"You are an expert educational content creator and professor. ...">>
StudyTaskHead == <<"Based primarily on the following reference material, create detailed study materials about ">>
StudyTaskMiddle == <<".\n\n            Reference Material:\n            ">>
StudyTaskTail == <<"\n\n            Important: ... Also include 12 flashcards and 4 exercises with detailed solutions.">>
Apology == <<"I'm sorry, but I don't have access to the document database at the moment.">>

Turn(role, text) == [role |-> role, content |-> text]

\* the mutant: only the newest turn is sent
ChatMessagesLastOnly(ctx, history) ==
  << Turn("system", ChatSystemPrompt), Turn("assistant", ContextPrefix \o ctx) >>
    \o (IF history = <<>> THEN <<>> ELSE <<history[Len(history)]>>)

\* messages=[system, assistant context, *chat_history]
ChatMessages(ctx, history) ==
  << Turn("system", ChatSystemPrompt), Turn("assistant", ContextPrefix \o ctx) >> \o history

StudyMessages(ctx, topic) ==
  << Turn("system", StudySystemPrompt),
     Turn("user", StudyTaskHead \o topic \o StudyTaskMiddle \o ctx \o StudyTaskTail) >>

NoRequest == [sent |-> FALSE, kind |-> "none", messages |-> <<>>]
ChatRequest(ctx, history) == [sent |-> TRUE, kind |-> "chat", messages |-> ChatMessages(ctx, history)]
StudyRequest(ctx, topic) == [sent |-> TRUE, kind |-> "study", messages |-> StudyMessages(ctx, topic)]

\* the cursor glyph U+258C that the streaming loop shows after the text
Cursor == "CURSOR"

\* what the user types into st.chat_input, question by question
SamplePrompts == << <<"n","l","p","?">>, <<"w","h","y">> >>

\* response.choices[0].delta.content of a chunk: None or a piece of text
SampleDeltas ==
  { [is_none |-> TRUE, text |-> <<>>],
    [is_none |-> FALSE, text |-> <<"a">>],
    [is_none |-> FALSE, text |-> <<"b">>] }

\* the most chunks one response stream delivers
MaxChunks == 3

UserTurns(history) == Cardinality({i \in 1..Len(history) : history[i].role = "user"})

\* no structured request has been answered
NoResponse ==
  [kind |-> "none", keys |-> {}, study_guide |-> {}, flashcards |-> <<>>, exercises |-> <<>>]

NoContent ==
  [is_none |-> TRUE, title |-> <<>>, subtitle |-> <<>>, study_guide |-> {},
   flashcards |-> <<>>, exercises |-> <<>>]

\* the locals of a script run before any query entry point is reached
QueryIdle ==
  /\ entry = "none"
  /\ search_results = <<>>
  /\ context = <<>>
  /\ request = NoRequest
  /\ received = <<>>
  /\ full_response = <<>>
  /\ placeholder = <<>>
  /\ displays = <<>>
  /\ returned = <<>>
  /\ content = NoContent
  /\ downloads = FALSE
  /\ study_topic = <<>>
  /\ study_response = NoResponse
  /\ download_error = None

\* the locals are gone when the script run ends
QueryReset ==
  /\ entry' = "none"
  /\ search_results' = <<>>
  /\ context' = <<>>
  /\ request' = NoRequest
  /\ received' = <<>>
  /\ full_response' = <<>>
  /\ placeholder' = <<>>
  /\ displays' = <<>>
  /\ returned' = <<>>
  /\ content' = NoContent
  /\ downloads' = FALSE
  /\ study_topic' = <<>>
  /\ study_response' = NoResponse
  /\ download_error' = None

\* the mutant: the history is replaced by its newest turn
AppendTurnTruncating(history, role, text) == <<Turn(role, text)>>

\* st.session_state.chat_history.append({"role": role, "content": text})
AppendTurn(history, role, text) == Append(history, Turn(role, text))

\* main: the body of `if prompt := st.chat_input(...)` up to the call of
\* client.chat.completions.create.  search_up: the embedding service
\* answers the query; if it does not, similarity_search raises and the
\* script run ends there.
Ask(prompt, search_up, ranking) ==
  /\ chat_history' = AppendTurn(chat_history, "user", prompt)
  /\ entry' = "main"
  /\ IF vectordb # None /\ ~search_up
     THEN /\ pc' = "raised"
          /\ UNCHANGED <<search_results, context, request>>
     ELSE /\ search_results' = IF vectordb # None THEN similarity_search(ranking) ELSE <<>>
          /\ context' = ChatContext(search_results', <<>>)
          /\ request' = ChatRequest(context', chat_history')
          /\ pc' = "streaming"
  /\ UNCHANGED <<call, ingestvars_but_pc, received, full_response, placeholder, displays,
                 returned, content, downloads, study_topic, study_response, download_error>>

ChatSubmit ==
  /\ pc = "tabs"
  /\ UserTurns(chat_history) < Len(SamplePrompts)
  /\ \E search_up \in BOOLEAN, ranking \in Rankings :
       Ask(SamplePrompts[UserTurns(chat_history) + 1], search_up, ranking)

\* chatbot.py: process_chat_message(user_input, vectordb, client) up to the
\* call of client.chat.completions.create, or to its return without one
ProcessChatMessage ==
  /\ pc = "tabs"
  /\ entry' = "chatbot"
  /\ \E search_up \in BOOLEAN, ranking \in Rankings :
       IF vectordb = None
       THEN /\ returned' = Apology
            /\ pc' = "returned"
            /\ UNCHANGED <<search_results, context, request>>
       ELSE IF ~search_up
       THEN /\ pc' = "raised"
            /\ UNCHANGED <<search_results, context, request, returned>>
       ELSE /\ search_results' = similarity_search(ranking)
            /\ context' = ChatContext(search_results', <<>>)
            /\ request' = ChatRequest(context', chat_history)
            /\ pc' = "streaming"
            /\ UNCHANGED returned
  /\ UNCHANGED <<call, ingestvars_but_pc, chat_history, received, full_response, placeholder,
                 displays, content, downloads, study_topic, study_response, download_error>>

\* the mutant: the new segment is put before the text so far
AccumulateReversed(response, text) == text \o response

\* full_response += response.choices[0].delta.content
Accumulate(response, text) == response \o text

\* one iteration of `for response in client.chat.completions.create(...)`
StreamChunk ==
  /\ pc = "streaming"
  /\ Len(received) < MaxChunks
  /\ \E delta \in SampleDeltas :
       /\ received' = Append(received, delta)
       /\ IF delta.is_none
          THEN UNCHANGED <<full_response, placeholder, displays>>
          ELSE /\ full_response' = Accumulate(full_response, delta.text)
               /\ placeholder' = full_response' \o <<Cursor>>
               /\ displays' = Append(displays, placeholder')
  /\ UNCHANGED <<call, ingestvars, chat_history, entry, search_results, context, request,
                 returned, content, downloads, study_topic, study_response, download_error>>

\* the stream is exhausted: the statements after the loop
StreamEnd ==
  /\ pc = "streaming"
  /\ placeholder' = full_response
  /\ IF entry = "main"
     THEN /\ chat_history' = AppendTurn(chat_history, "assistant", full_response)
          /\ pc' = "answered"
          /\ UNCHANGED returned
     ELSE /\ returned' = full_response
          /\ pc' = "returned"
          /\ UNCHANGED chat_history
  /\ UNCHANGED <<call, ingestvars_but_pc, entry, search_results, context, request, received,
                 full_response, displays, content, downloads, study_topic, study_response, download_error>>

\* the generation service raises, at the call or while the stream is read:
\* neither entry point catches it, and the script run ends there
StreamRaise ==
  /\ pc = "streaming"
  /\ pc' = "raised"
  /\ UNCHANGED <<call, ingestvars_but_pc, chat_history, queryvars>>

nlp_topics ==
  {
    <<"n","a","t","u","r","a","l"," ","l","a","n","g","u","a","g","e"," ","p","r","o","c","e","s","s","i","n","g">>,
    <<"n","l","p">>,
    <<"c","o","m","p","u","t","a","t","i","o","n","a","l"," ","l","i","n","g","u","i","s","t","i","c","s">>,
    <<"t","e","x","t"," ","a","n","a","l","y","s","i","s">>,
    <<"l","a","n","g","u","a","g","e"," ","m","o","d","e","l">>,
    <<"m","a","c","h","i","n","e"," ","l","e","a","r","n","i","n","g">>,
    <<"d","e","e","p"," ","l","e","a","r","n","i","n","g">>,
    <<"t","o","k","e","n","i","z","a","t","i","o","n">>,
    <<"p","a","r","s","i","n","g">>,
    <<"t","e","x","t"," ","c","l","a","s","s","i","f","i","c","a","t","i","o","n">>,
    <<"n","a","m","e","d"," ","e","n","t","i","t","y"," ","r","e","c","o","g","n","i","t","i","o","n">>,
    <<"s","e","n","t","i","m","e","n","t"," ","a","n","a","l","y","s","i","s">>,
    <<"m","a","c","h","i","n","e"," ","t","r","a","n","s","l","a","t","i","o","n">>,
    <<"s","p","e","e","c","h"," ","r","e","c","o","g","n","i","t","i","o","n">>,
    <<"t","e","x","t"," ","g","e","n","e","r","a","t","i","o","n">>,
    <<"i","n","f","o","r","m","a","t","i","o","n"," ","e","x","t","r","a","c","t","i","o","n">>,
    <<"w","o","r","d"," ","e","m","b","e","d","d","i","n","g","s">>,
    <<"l","a","n","g","u","a","g","e"," ","u","n","d","e","r","s","t","a","n","d","i","n","g">>,
    <<"t","e","x","t"," ","s","u","m","m","a","r","i","z","a","t","i","o","n">>,
    <<"q","u","e","s","t","i","o","n"," ","a","n","s","w","e","r","i","n","g">>,
    <<"t","o","p","i","c"," ","m","o","d","e","l","i","n","g">>,
    <<"t","e","x","t"," ","m","i","n","i","n","g">>,
    <<"s","e","m","a","n","t","i","c"," ","a","n","a","l","y","s","i","s">>,
    <<"s","y","n","t","a","c","t","i","c"," ","a","n","a","l","y","s","i","s">>,
    <<"c","o","r","p","u","s"," ","l","i","n","g","u","i","s","t","i","c","s">>,
    <<"d","i","s","c","o","u","r","s","e"," ","a","n","a","l","y","s","i","s">>,
    <<"m","o","r","p","h","o","l","o","g","i","c","a","l"," ","a","n","a","l","y","s","i","s">>,
    <<"p","a","r","t"," ","o","f"," ","s","p","e","e","c","h"," ","t","a","g","g","i","n","g">>,
    <<"d","e","p","e","n","d","e","n","c","y"," ","p","a","r","s","i","n","g">>,
    <<"t","r","a","n","s","f","o","r","m","e","r"," ","m","o","d","e","l","s">>,
    <<"b","e","r","t">>,
    <<"g","p","t">>,
    <<"w","o","r","d","2","v","e","c">>,
    <<"l","a","n","g","u","a","g","e"," ","r","e","p","r","e","s","e","n","t","a","t","i","o","n">>,
    <<"t","e","x","t"," ","p","r","e","p","r","o","c","e","s","s","i","n","g">>,
    <<"s","e","q","u","e","n","c","e"," ","l","a","b","e","l","i","n","g">>,
    <<"n","e","u","r","a","l"," ","n","e","t","w","o","r","k","s">>,
    <<"l","a","n","g","u","a","g","e"," ","g","e","n","e","r","a","t","i","o","n">>,
    <<"t","e","x","t"," ","s","i","m","i","l","a","r","i","t","y">>,
    <<"d","o","c","u","m","e","n","t"," ","c","l","a","s","s","i","f","i","c","a","t","i","o","n">>,
    <<"i","n","f","o","r","m","a","t","i","o","n"," ","r","e","t","r","i","e","v","a","l">>
  }

\* app.py: is_nlp_topic
is_nlp_topic(topic) == \E t \in nlp_topics : Contains(Lower(topic), t)

\* what the user types into the topic field
SampleTopics == { <<>>, <<"N","L","P">>, <<"s","y","n","t","a","x">>, <<"s","o","u","p">> }

\* the caps of generate_study_materials on the lists it returns
MaxFlashcards == 12
MaxExercises == 4

Cards(n) == [i \in 1..n |-> [front |-> i, back |-> i]]
Tasks(n) == [i \in 1..n |-> [question |-> i, solution |-> i]]

Sections ==
  {"overview", "core_concepts", "technical_details", "practical_applications",
   "challenges", "future_directions"}

\* What the generation service may answer to the structured request: it
\* raises; its text is not JSON; or a JSON object with the listed keys,
\* whose study_guide holds the listed sections and whose items hold the
\* fields shown.
SampleResponses ==
  { [kind |-> "raises", keys |-> {}, study_guide |-> {}, flashcards |-> <<>>, exercises |-> <<>>],
    [kind |-> "malformed", keys |-> {}, study_guide |-> {}, flashcards |-> <<>>, exercises |-> <<>>],
    [kind |-> "object", keys |-> {"title", "study_guide", "flashcards", "exercises"},
     study_guide |-> Sections, flashcards |-> Cards(20), exercises |-> Tasks(MaxExercises + 1)],
    [kind |-> "object", keys |-> {"title", "study_guide", "flashcards", "exercises"},
     study_guide |-> Sections, flashcards |-> Cards(2), exercises |-> Tasks(1)],
    [kind |-> "object", keys |-> {"title", "study_guide", "flashcards"},
     study_guide |-> Sections, flashcards |-> Cards(2), exercises |-> <<>>],
    [kind |-> "object", keys |-> {"study_guide", "flashcards", "exercises"},
     study_guide |-> Sections, flashcards |-> Cards(2), exercises |-> Tasks(1)],
    [kind |-> "object", keys |-> {"title", "study_guide", "flashcards", "exercises"},
     study_guide |-> Sections \ {"challenges"}, flashcards |-> Cards(2), exercises |-> Tasks(1)],
    [kind |-> "object", keys |-> {"title", "study_guide", "flashcards", "exercises"},
     study_guide |-> Sections, flashcards |-> <<[front |-> 1]>>, exercises |-> Tasks(1)] }

\* the mutant: the lists of the response are returned whole
StudyReturnUntruncated(topic, response) ==
  IF response.kind # "object" \/ ~({"study_guide", "flashcards", "exercises"} \subseteq response.keys)
  THEN NoContent
  ELSE [is_none |-> FALSE,
        title |-> topic \o <<" ","S","t","u","d","y"," ","G","u","i","d","e">>,
        subtitle |-> <<"Generated on ">>,
        study_guide |-> response.study_guide,
        flashcards |-> response.flashcards,
        exercises |-> response.exercises]

\* the mutant: a key the object lacks is read with an empty default
StudyReturnDefaulting(topic, response) ==
  IF response.kind # "object"
  THEN NoContent
  ELSE [is_none |-> FALSE,
        title |-> topic \o <<" ","S","t","u","d","y"," ","G","u","i","d","e">>,
        subtitle |-> <<"Generated on ">>,
        study_guide |-> response.study_guide,
        flashcards |-> SubSeq(response.flashcards, 1, Min(MaxFlashcards, Len(response.flashcards))),
        exercises |-> SubSeq(response.exercises, 1, Min(MaxExercises, Len(response.exercises)))]

\* generate_study_materials from the call of client.chat.completions.create
\* on: the try block and its except branch
StudyReturn(topic, response) ==
  IF response.kind # "object" \/ ~({"study_guide", "flashcards", "exercises"} \subseteq response.keys)
  THEN NoContent
  ELSE [is_none |-> FALSE,
        title |-> topic \o <<" ","S","t","u","d","y"," ","G","u","i","d","e">>,
        subtitle |-> <<"Generated on ">>,
        study_guide |-> response.study_guide,
        flashcards |-> SubSeq(response.flashcards, 1, Min(MaxFlashcards, Len(response.flashcards))),
        exercises |-> SubSeq(response.exercises, 1, Min(MaxExercises, Len(response.exercises)))]

\* the keys of the dict generate_study_materials returns
RecordKeys(record) == DOMAIN record \ {"is_none"}

\* the first of the keys read, in reading order, that the dict does not
\* hold (the KeyError the read raises), or None
RECURSIVE FirstMissing(_, _)
FirstMissing(reads, keys) ==
  IF reads = <<>> THEN None
  ELSE IF Head(reads) \notin keys THEN Head(reads)
  ELSE FirstMissing(Tail(reads), keys)

\* the same over the items of a list, each read for the given fields
RECURSIVE ItemMissing(_, _)
ItemMissing(items, fields) ==
  IF items = <<>> THEN None
  ELSE IF FirstMissing(fields, DOMAIN Head(items)) # None
  THEN FirstMissing(fields, DOMAIN Head(items))
  ELSE ItemMissing(Tail(items), fields)

\* two statements in sequence: the second runs if the first did not raise
Then(first, second) == IF first # None THEN first ELSE second

\* pdf_generator.generate_pdf: the reads of content, in the order made
generate_pdf(record) ==
  Then(FirstMissing(<<"title", "main_content", "sidebar_content", "flashcards">>, RecordKeys(record)),
  Then(ItemMissing(record.flashcards, <<"front", "back">>),
  Then(FirstMissing(<<"exercises">>, RecordKeys(record)),
       ItemMissing(record.exercises, <<"question", "solution">>))))

\* display_preview: title, subtitle, the six sections, the items
display_preview(record) ==
  Then(FirstMissing(<<"title", "subtitle", "study_guide">>, RecordKeys(record)),
  Then(FirstMissing(<<"overview", "core_concepts", "technical_details", "practical_applications",
                      "challenges", "future_directions">>, record.study_guide),
  Then(ItemMissing(record.flashcards, <<"front", "back">>),
       ItemMissing(record.exercises, <<"question", "solution">>))))

\* generate_downloads: the PDF first, then the flashcard exports (the Anki
\* deck inside its own try), then the preview
generate_downloads(record) ==
  Then(generate_pdf(record),
  Then(FirstMissing(<<"flashcards">>, RecordKeys(record)),
  Then(ItemMissing(record.flashcards, <<"front", "back">>),
       display_preview(record))))

\* main: the "Generate Materials" button with a topic that passes
\* is_nlp_topic: generate_study_materials and `if content: generate_downloads`
Generate(topic, search_up, ranking, response) ==
  /\ entry' = "study"
  /\ study_topic' = topic
  /\ IF vectordb # None /\ ~search_up
     THEN /\ pc' = "raised"
          /\ UNCHANGED <<search_results, context, request, content, downloads, study_response,
                           download_error>>
     ELSE /\ search_results' = IF vectordb # None THEN similarity_search(ranking) ELSE <<>>
          /\ context' = StudyContext(search_results', <<>>)
          /\ request' = StudyRequest(context', topic)
          /\ study_response' = response
          /\ content' = StudyReturn(topic, response)
          /\ downloads' = ~content'.is_none
          /\ download_error' = IF content'.is_none THEN None ELSE generate_downloads(content')
          /\ pc' = "generated"

GenerateMaterials ==
  /\ pc = "tabs"
  /\ \E topic \in SampleTopics :
       IF topic = <<>> \/ ~is_nlp_topic(topic)
       THEN /\ pc' = "refused"
            /\ entry' = "study"
            /\ study_topic' = topic
            /\ UNCHANGED <<search_results, context, request, content, downloads, study_response,
                           download_error>>
       ELSE \E search_up \in BOOLEAN, ranking \in Rankings, response \in SampleResponses :
              Generate(topic, search_up, ranking, response)
  /\ UNCHANGED <<call, ingestvars_but_pc, chat_history, received, full_response, placeholder,
                 displays, returned>>

(***************************************************************************)
(* test.py: conduct_rouge_tests                                            *)
(***************************************************************************)

\* the questions the evaluation asks (one of the five of the source)
test_questions_glossary == << <<"H","o","w"," ","w","o","u","l","d"," ","y","o","u"," ","d","e","f","i","n","e"," ","a","c","c","e","n","t","?">> >>

prompt_template ==
  <<"You are an NLP expert. Answer questions clearly and concisely, referencing the uploaded materials when RAG is enabled.">>

\* pdf_extract += f"{page_content} [Source: {filename}, Page: {page}]\n\n"
RECURSIVE RougeContext(_, _)
RougeContext(results, pdf_extract) ==
  IF results = <<>> THEN pdf_extract
  ELSE RougeContext(Tail(results),
         pdf_extract \o Head(results).page_content \o <<" ">>
           \o SourceTag(Head(results).metadata.filename, Head(results).metadata.page)
           \o <<"\n", "\n">>)

\* prompt_with_rag and prompt_basic
RagRequest(pdf_extract, question) ==
  [sent |-> TRUE, kind |-> "rouge_rag",
   messages |-> << Turn("system", prompt_template), Turn("assistant", pdf_extract),
                   Turn("user", question) >>]
BasicRequest(question) ==
  [sent |-> TRUE, kind |-> "rouge_basic",
   messages |-> << Turn("system", prompt_template), Turn("user", question) >>]

\* How the services behave for one question: which call raises, if any
\* (the search, the first stream, the second stream), and the texts the two
\* streams deliver.
SampleOutcomes ==
  [fails : {"none", "search", "rag", "basic"}, rag : {<<>>, <<"a", " ">>}, basic : {<<"b">>}]

\* the body of `for question in test_questions_glossary` for one question;
\* run holds the history and the last request so far and whether a call raised
RougeQuestion(question, outcome, ranking, run) ==
  IF run.raised THEN run
  ELSE IF vectordb = None \/ outcome.fails = "search"
  THEN [run EXCEPT !.raised = TRUE, !.history = AppendTurn(@, "user", question)]
  ELSE IF outcome.fails = "rag"
  THEN [raised |-> TRUE,
        history |-> AppendTurn(run.history, "user", question),
        request |-> RagRequest(RougeContext(similarity_search(ranking), <<>>), question)]
  ELSE [raised |-> outcome.fails = "basic",
        history |->
          IF outcome.fails = "basic"
          THEN AppendTurn(AppendTurn(run.history, "user", question),
                          "assistant", Strip(outcome.rag))
          ELSE AppendTurn(AppendTurn(AppendTurn(run.history, "user", question),
                                     "assistant", Strip(outcome.rag)),
                          "assistant", Strip(outcome.basic)),
        request |-> BasicRequest(question)]

RECURSIVE RougeLoop(_, _, _, _)
RougeLoop(questions, outcomes, rankings, run) ==
  IF questions = <<>> THEN run
  ELSE RougeLoop(Tail(questions), Tail(outcomes), Tail(rankings),
                 RougeQuestion(Head(questions), Head(outcomes), Head(rankings), run))

Tested(run) ==
  /\ chat_history' = run.history
  /\ request' = run.request
  /\ pc' = IF run.raised THEN "raised" ELSE "tested"

\* conduct_rouge_tests(vectordb, client), called in a script run
ConductRougeTests ==
  /\ pc = "tabs"
  /\ UserTurns(chat_history) + Len(test_questions_glossary) <= Len(SamplePrompts)
  /\ entry' = "rouge"
  /\ \E outcomes \in [1..Len(test_questions_glossary) -> SampleOutcomes],
        rankings \in [1..Len(test_questions_glossary) -> Rankings] :
       Tested(RougeLoop(test_questions_glossary, outcomes, rankings,
                        [raised |-> FALSE, history |-> chat_history, request |-> request]))
  /\ UNCHANGED <<call, ingestvars_but_pc, search_results, context, received, full_response,
                 placeholder, displays, returned, content, downloads, study_topic,
                 study_response, download_error>>

\* initialize_session_state and a process that has built nothing yet
InitSession ==
  /\ uploaded_filenames = <<HardcodedName>>
  /\ chat_history = <<>>
  /\ collection = <<>>
  /\ cache = {}
  /\ pc = "idle"
  /\ vectordb = None
  /\ flagged_files = <<>>
  /\ build = NoBuild
  /\ QueryIdle

\* the script run ends, at the end of main or where an exception left it
Finish ==
  /\ pc \in {"tabs", "answered", "returned", "raised", "refused", "generated", "tested"}
  /\ pc' = "idle"
  /\ vectordb' = None
  /\ flagged_files' = <<>>
  /\ build' = NoBuild
  /\ QueryReset
  /\ UNCHANGED <<call, pdf_files, collection, cache, uploaded_filenames, chat_history>>

InitIngest ==
  /\ InitSession
  /\ pdf_files = <<>>
  /\ call = NoCall

NextIngest == Rerun \/ ChangeUploads \/ Finish

SpecIngest == InitIngest /\ [][NextIngest]_vars

\* a session whose uploader holds nothing, or a rejected and an admitted file
Init ==
  /\ InitSession
  /\ pdf_files \in {<<>>, <<SampleUploads[3], SampleUploads[4]>>}
  /\ call = NoCall

Next ==
  \/ Rerun
  \/ ChatSubmit
  \/ StreamChunk
  \/ StreamEnd
  \/ StreamRaise
  \/ ProcessChatMessage
  \/ GenerateMaterials
  \/ ConductRougeTests
  \/ Finish

Spec == Init /\ [][Next]_vars

(***************************************************************************)
(* Direct calls of is_nlp_relevant on bounded page lists                   *)
(***************************************************************************)

\* the longest page list handed to is_nlp_relevant
MaxPages == 3

\* page texts: the keyword in three letter cases, a keyword inside a longer
\* word, broken by a space, and texts without any keyword
SampleTexts ==
  { <<>>,
    <<"t","o","k","e","n","i","z","a","t","i","o","n">>,
    <<"T","o","k","e","n","i","z","a","t","i","o","n">>,
    <<"T","O","K","E","N","I","Z","A","T","I","O","N">>,
    <<"s","t","o","n","e">>,
    <<"t","o","k","e","n"," ","i","z","a","t","i","o","n">>,
    <<"c","a","t">> }

RECURSIVE SeqsUpTo(_, _)
SeqsUpTo(S, n) ==
  IF n = 0 THEN {<<>>}
  ELSE LET shorter == SeqsUpTo(S, n - 1)
       IN  shorter \cup {Append(s, x) : s \in {t \in shorter : Len(t) = n - 1}, x \in S}

\* parse_pdf numbers the pages from 1
Numbered(texts) == [i \in 1..Len(texts) |-> <<texts[i], i>>]

InitFilter ==
  \E texts \in SeqsUpTo(SampleTexts, MaxPages) :
    /\ call = [pc |-> "ready", text_pages |-> Numbered(texts), result |-> FALSE]
    /\ InitSession
    /\ pdf_files = <<>>

CallIsNlpRelevant ==
  /\ call.pc = "ready"
  /\ call' = [call EXCEPT !.pc = "done", !.result = is_nlp_relevant(call.text_pages)]
  /\ UNCHANGED <<ingestvars, chat_history, queryvars>>

NextFilter == CallIsNlpRelevant

SpecFilter == InitFilter /\ [][NextFilter]_vars

(***************************************************************************)
(* Direct calls of is_topic_nlp on bounded topic strings                   *)
(***************************************************************************)

\* the most pieces a topic string is put together from
MaxPieces == 3

\* pieces of topic strings: separators, a keyword in two letter cases and
\* with a full stop after it, the two halves of a keyword, and a word that
\* is no keyword
SamplePieces ==
  { <<" ">>, <<"\n">>, <<"n","l","p">>, <<"N","L","P">>, <<"n","l","p",".">>, <<"t","o","k","e","n">>, <<"i","z","a","t","i","o","n">>, <<"c","a","t">> }

RECURSIVE Concat(_)
Concat(pieces) == IF pieces = <<>> THEN <<>> ELSE Head(pieces) \o Concat(Tail(pieces))

InitTopic ==
  \E pieces \in SeqsUpTo(SamplePieces, MaxPieces) :
    /\ call = [pc |-> "ready", user_input |-> Concat(pieces), result |-> FALSE]
    /\ InitSession
    /\ pdf_files = <<>>

CallIsTopicNlp ==
  /\ call.pc = "ready"
  /\ call' = [call EXCEPT !.pc = "done", !.result = is_topic_nlp(call.user_input)]
  /\ UNCHANGED <<ingestvars, chat_history, queryvars>>

NextTopic == CallIsTopicNlp

SpecTopic == InitTopic /\ [][NextTopic]_vars

(***************************************************************************)
(* Direct calls of parse_pdf on one-page files with bounded page texts     *)
(***************************************************************************)

\* the longest extracted page text
MaxText == 5

\* the characters of extracted page texts: letters, the hyphen, the line
\* break and the space
SampleChars == {"a", "b", "-", "\n", " "}

InitParse ==
  \E text \in SeqsUpTo(SampleChars, MaxText) :
    /\ call = [pc |-> "ready",
               file |-> [pages |-> <<text>>, unreadable_page |-> 0, unsplittable |-> FALSE],
               filename |-> <<"p">>,
               result |-> <<>>]
    /\ InitSession
    /\ pdf_files = <<>>

CallParsePdf ==
  /\ call.pc = "ready"
  /\ call' = [call EXCEPT !.pc = "done", !.result = parse_pdf(call.file, call.filename).output]
  /\ UNCHANGED <<ingestvars, chat_history, queryvars>>

NextParse == CallParsePdf

SpecParse == InitParse /\ [][NextParse]_vars

(***************************************************************************)
(* Direct calls of get_chroma_index_for_pdf, one after another             *)
(***************************************************************************)

\* the most calls made on the collection
MaxCalls == 2

\* the most documents in one batch
MaxBatch == 3

\* the documents a caller may hand over: the built-in one, the sample
\* uploads, and a rejected document under the name of an admitted one
SampleDocuments ==
  <<[name |-> HardcodedName, data |-> hardcoded_pdf_data]>> \o SampleUploads
    \o <<[name |-> SampleUploads[4].name, data |-> SampleUploads[3].data]>>

SampleBatches ==
  {Pick(SampleDocuments, I, 1) :
     I \in {J \in SUBSET (1..Len(SampleDocuments)) : Cardinality(J) <= MaxBatch}}

InitInsert ==
  /\ call = [pc |-> "calls", n |-> 0]
  /\ InitSession
  /\ pdf_files = <<>>

\* the call has returned or raised: what it left behind
Called(files, filenames, got) ==
  /\ collection' = got.collection
  /\ build' = [called |-> TRUE, files |-> files, filenames |-> filenames,
               raised |-> got.raised, stage |-> got.stage, lists |-> got.lists,
               before |-> collection]

CallGetChromaIndexForPdf ==
  /\ call.pc = "calls"
  /\ call.n < MaxCalls
  /\ call' = [call EXCEPT !.n = @ + 1]
  /\ \E batch \in SampleBatches, chroma_up \in BOOLEAN, embed_up \in BOOLEAN :
       Called([i \in 1..Len(batch) |-> batch[i].data], [i \in 1..Len(batch) |-> batch[i].name],
              get_chroma_index_for_pdf([i \in 1..Len(batch) |-> batch[i].data],
                                       [i \in 1..Len(batch) |-> batch[i].name],
                                       chroma_up, embed_up))
  /\ UNCHANGED <<pdf_files, cache, uploaded_filenames, vectordb, flagged_files, pc,
                 chat_history, queryvars>>

NextInsert == CallGetChromaIndexForPdf

SpecInsert == InitInsert /\ [][NextInsert]_vars

(***************************************************************************)
(* Direct calls of text_to_docs on the pages parse_pdf returns             *)
(***************************************************************************)

\* extracted page texts: an empty and a blank page, a short page, and pages
\* the splitter cuts into two and into three chunks
SamplePages ==
  { <<>>, <<" ">>, <<"n","l","p">>, <<"a", LongRun, "b">>, <<LongRun, " ", LongRun, "\n", "c">> }

InitDocs ==
  \E pages \in SeqsUpTo(SamplePages, MaxPages) :
    /\ call = [pc |-> "ready",
               file |-> [pages |-> pages, unreadable_page |-> 0, unsplittable |-> FALSE],
               filename |-> <<"p",".","p","d","f">>,
               result |-> <<>>]
    /\ InitSession
    /\ pdf_files = <<>>

CallTextToDocs ==
  /\ call.pc = "ready"
  /\ call' = [call EXCEPT
               !.pc = "done",
               !.result = text_to_docs(parse_pdf(call.file, call.filename).output,
                                       call.filename, call.file.unsplittable).docs]
  /\ UNCHANGED <<ingestvars, chat_history, queryvars>>

NextDocs == CallTextToDocs

SpecDocs == InitDocs /\ [][NextDocs]_vars

(***************************************************************************)
(* Claims                                                                  *)
(***************************************************************************)

LowerLetters == <<"a","b","c","d","e","f","g","h","i","j","k","l","m","n","o","p","q","r","s","t","u","v","w","x","y","z">>
UpperLetters == <<"A","B","C","D","E","F","G","H","I","J","K","L","M","N","O","P","Q","R","S","T","U","V","W","X","Y","Z">>

\* the characters that are c in some letter case
CaseVariants(c) ==
  {c} \cup {UpperLetters[i] : i \in {j \in 1..26 : LowerLetters[j] = c}}

\* kw occurs in text at position i, letter case ignored
OccursAt(text, i, kw) ==
  /\ i + Len(kw) - 1 <= Len(text)
  /\ \A j \in 1..Len(kw) : text[i + j - 1] \in CaseVariants(kw[j])

HasKeyword(text) ==
  \E kw \in nlp_keywords : \E i \in 1..Len(text) : OccursAt(text, i, kw)

Tokenization == <<"t","o","k","e","n","i","z","a","t","i","o","n">>

\* C1: is_nlp_relevant(pages) is true exactly when some page contains some
\* keyword of nlp_keywords as a plain substring, letter case ignored; it is
\* false for zero pages and true whenever a page contains "tokenization" in
\* any letter case.
C1_RelevantIffKeywordSubstring ==
  call.pc = "done" =>
    /\ call.result = (\E p \in 1..Len(call.text_pages) : HasKeyword(call.text_pages[p][1]))
    /\ (call.text_pages = <<>> => call.result = FALSE)
    /\ ((\E p \in 1..Len(call.text_pages) :
           \E i \in 1..Len(call.text_pages[p][1]) :
              OccursAt(call.text_pages[p][1], i, Tokenization)) => call.result = TRUE)

\* a page list whose only match is an upper-case keyword on a later page
C1_Witness ==
  /\ call.pc = "done"
  /\ call.result = TRUE
  /\ Len(call.text_pages) >= 2
  /\ ~HasKeyword(call.text_pages[1][1])
  /\ \E p \in 2..Len(call.text_pages) :
        /\ call.text_pages[p][1] # Lower(call.text_pages[p][1])
        /\ HasKeyword(call.text_pages[p][1])

Names(list) == {list[i] : i \in 1..Len(list)}

ParseRaises(file) == file.unreadable_page \in 1..Len(file.pages)

\* the document parses and some page of it holds a keyword
Admitted(file) ==
  /\ ~ParseRaises(file)
  /\ \E p \in 1..Len(file.pages) : HasKeyword(Normalize(file.pages[p]))

ChunkRaises(file) == Admitted(file) /\ file.unsplittable

PassagesOf(docs, name) ==
  {docs[n] : n \in {l \in 1..Len(docs) : docs[l].metadata.filename = name}}

PagesOf(docs, name) == {d.metadata.page : d \in PassagesOf(docs, name)}

NonBlankPages(file) ==
  {p \in 1..Len(file.pages) : Strip(Normalize(file.pages[p])) # <<>>}

\* the passages the build of this run wrote to the collection
Added == SubSeq(collection, Len(build.before) + 1, Len(collection))

\* C2: when get_chroma_index_for_pdf returns, a document whose parsing or
\* chunking raised is named in flagged_files and none of its pages
\* contributes a passage, while every other document of the batch was
\* processed and, if admitted, has a passage of each of its pages inserted.
C2_ErrorsArePerDocument ==
  (build.called /\ ~build.raised) =>
    \A i \in 1..Len(build.files) :
      IF ParseRaises(build.files[i]) \/ ChunkRaises(build.files[i])
      THEN /\ build.filenames[i] \in Names(build.lists.flagged_files)
           /\ PassagesOf(build.lists.documents, build.filenames[i]) = {}
           /\ PassagesOf(Added, build.filenames[i]) = {}
      ELSE /\ build.filenames[i] \in
                Names(build.lists.flagged_files) \cup Names(build.lists.successful_files)
           /\ Admitted(build.files[i]) =>
                /\ build.filenames[i] \in Names(build.lists.successful_files)
                /\ PagesOf(Added, build.filenames[i]) = NonBlankPages(build.files[i])

\* a batch where a document that raises stands before an admitted one,
\* which is inserted
C2_Witness ==
  /\ build.called
  /\ ~build.raised
  /\ \E i \in 1..Len(build.files) : \E j \in (i + 1)..Len(build.files) :
        /\ ParseRaises(build.files[i])
        /\ build.files[i].unreadable_page > 1
        /\ Admitted(build.files[j])
        /\ PagesOf(Added, build.filenames[j]) = NonBlankPages(build.files[j])
        /\ build.filenames[i] \in Names(build.lists.flagged_files)

\* the passages a document yields when it parses and is admitted
Expected(file, filename) ==
  IF Admitted(file) /\ ~file.unsplittable
  THEN text_to_docs(parse_pdf(file, filename).output, filename, FALSE).docs
  ELSE <<>>

FullyInserted(file, filename) ==
  /\ Admitted(file)
  /\ \A d \in Names(Expected(file, filename)) : d \in Names(collection)

\* C3: once create_educational_vectordb has returned, every document of the
\* batch is fully inserted into the collection or named in the returned
\* flagged_files.
C3_InsertedOrFlagged ==
  pc = "tabs" =>
    \A i \in 1..Len(process_uploads(pdf_files).files) :
      \/ FullyInserted(process_uploads(pdf_files).files[i],
                       process_uploads(pdf_files).filenames[i])
      \/ process_uploads(pdf_files).filenames[i] \in Names(flagged_files)

\* C4: after a failed collection build (vectordb is None) no chat or
\* study-material request is sent with an empty context.
C4_FailedBuildStopsGeneration ==
  (request.sent /\ context = <<>>) => vectordb # None

\* C5: at every query entry point, when vectordb is None the context is the
\* empty string and the generation request is still sent.
C5_AbsentIndexStillGenerates ==
  (entry \in {"main", "chatbot", "study"} /\ pc # "refused" /\ vectordb = None) =>
    (context = <<>> /\ request.sent)

SourcePrefix == <<"[","S","o","u","r","c","e",":"," ">>

Occurrences(text, part) ==
  Cardinality({i \in 1..Len(text) : i + Len(part) - 1 <= Len(text)
                                     /\ SubSeq(text, i, i + Len(part) - 1) = part})

\* C6: in the chat flow and in the study-material flow, the context built
\* from a non-empty retrieval result holds exactly one [Source: ..., Page: ...]
\* tag per retrieved passage, with that passage's filename and page.
C6_OneTagPerPassage ==
  (request.sent /\ search_results # <<>>) =>
    /\ Occurrences(context, SourcePrefix) = Len(search_results)
    /\ \A i \in 1..Len(search_results) :
         Contains(context, SourceTag(search_results[i].metadata.filename,
                                     search_results[i].metadata.page))

\* a passage's text, a line break, its citation tag
Block(passage) ==
  passage.page_content \o <<"\n">>
    \o SourceTag(passage.metadata.filename, passage.metadata.page)

\* the blocks of the passages in order, one blank line between two of them
RECURSIVE Joined(_)
Joined(passages) ==
  IF Len(passages) = 1 THEN Block(passages[1])
  ELSE Block(passages[1]) \o <<"\n", "\n">> \o Joined(Tail(passages))

\* C7: the chat context is the passages' texts, each followed by its
\* citation tag, in retrieval order with a blank line between consecutive
\* passages (inside one leading and one trailing line break); for an empty
\* retrieval result it is the empty string.
C7_ChatContextLayout ==
  (entry \in {"main", "chatbot"} /\ request.sent) =>
    context = IF search_results = <<>> THEN <<>>
              ELSE <<"\n">> \o Joined(search_results) \o <<"\n">>

\* a chat request built from three retrieved passages of two documents
C7_Witness ==
  /\ entry = "main"
  /\ request.sent
  /\ Len(search_results) = k
  /\ search_results[1].metadata.filename # search_results[2].metadata.filename
  /\ search_results[1].metadata.page # search_results[3].metadata.page

IsPrefix(s, t) == Len(s) <= Len(t) /\ SubSeq(t, 1, Len(s)) = s

\* C8: every step leaves the old chat history as a prefix of the new one,
\* and every chat request carries, after the system and context messages,
\* the whole history in order.
C8_HistoryAppendOnly ==
  [][ /\ IsPrefix(chat_history, chat_history')
      /\ (request' # request /\ request'.kind = "chat") =>
           SubSeq(request'.messages, 3, Len(request'.messages)) = chat_history' ]_vars

\* the second question of a session is being answered: the request holds
\* the first exchange and the new question
C8_Witness ==
  /\ entry = "main"
  /\ pc = "streaming"
  /\ Len(chat_history) = 3
  /\ chat_history[2].role = "assistant"
  /\ chat_history[2].content # <<>>
  /\ Len(request.messages) = 5

\* C9: the assistant turn a chat turn appends to the chat history never has
\* empty content.
C9_NoEmptyAssistantTurn ==
  (entry = "main" /\ pc = "answered") =>
    /\ chat_history[Len(chat_history)].role = "assistant"
    /\ chat_history[Len(chat_history)].content # <<>>

\* the non-null segments of the deltas, concatenated in arrival order
RECURSIVE Assembled(_)
Assembled(deltas) ==
  IF deltas = <<>> THEN <<>>
  ELSE (IF Head(deltas).is_none THEN <<>> ELSE Head(deltas).text) \o Assembled(Tail(deltas))

\* what C10 says of every display but the last: a prefix of the final text
DisplaysArePrefixes ==
  \A i \in 1..Len(displays) : IsPrefix(displays[i], Assembled(received))

\* a prefix of the final text with the cursor glyph after it
DisplaysArePrefixesWithCursor ==
  \A i \in 1..Len(displays) :
    /\ displays[i][Len(displays[i])] = Cursor
    /\ IsPrefix(SubSeq(displays[i], 1, Len(displays[i]) - 1), Assembled(received))

AssembledInOrder ==
  /\ (entry = "main" /\ pc = "streaming") => chat_history[Len(chat_history)].role = "user"
  /\ pc = "answered" =>
       /\ chat_history[Len(chat_history)] = Turn("assistant", Assembled(received))
       /\ placeholder = Assembled(received)
  /\ (entry = "chatbot" /\ pc = "returned" /\ request.sent) => returned = Assembled(received)

\* C10 as stated: the assistant turn, appended only after the stream has
\* completed, is the non-null segments in arrival order, and each
\* intermediate display is a prefix of that final text.
C10_DisplaysArePrefixes ==
  /\ AssembledInOrder
  /\ pc \in {"answered", "returned"} => DisplaysArePrefixes

\* C10 as amended: each intermediate display is a prefix of the final text
\* followed by the cursor glyph.
C10_AssembledInOrder ==
  /\ AssembledInOrder
  /\ pc \in {"answered", "returned"} => DisplaysArePrefixesWithCursor

\* an answer assembled from two different segments with a null delta
\* between them
C10_Witness ==
  /\ pc = "answered"
  /\ Len(received) = 3
  /\ ~received[1].is_none
  /\ received[2].is_none
  /\ ~received[3].is_none
  /\ received[1].text # received[3].text
  /\ received[1].text # <<>>
  /\ received[3].text # <<>>
  /\ Len(displays) = 2

\* C11: a returned record holds exactly the first min(n, 12) flashcards and
\* the first min(m, 4) exercises of the response, in their order.
C11_Truncation ==
  (pc = "generated" /\ ~content.is_none) =>
    /\ Len(content.flashcards) = Min(Len(study_response.flashcards), 12)
    /\ Len(content.exercises) = Min(Len(study_response.exercises), 4)
    /\ \A i \in 1..Len(content.flashcards) : content.flashcards[i] = study_response.flashcards[i]
    /\ \A i \in 1..Len(content.exercises) : content.exercises[i] = study_response.exercises[i]

\* a response with 20 flashcards and 5 exercises was cut to 12 and 4
C11_Witness ==
  /\ pc = "generated"
  /\ Len(study_response.flashcards) = 20
  /\ Len(study_response.exercises) = 5
  /\ Len(content.flashcards) = 12
  /\ Len(content.exercises) = 4

\* the response has every field the schema of the request requires
Conforms(response) ==
  /\ response.kind = "object"
  /\ {"title", "study_guide", "flashcards", "exercises"} \subseteq response.keys
  /\ Sections \subseteq response.study_guide
  /\ \A i \in 1..Len(response.flashcards) :
       {"front", "back"} \subseteq DOMAIN response.flashcards[i]
  /\ \A i \in 1..Len(response.exercises) :
       {"question", "solution"} \subseteq DOMAIN response.exercises[i]

\* C12: for a response that lacks a required field of the schema,
\* generate_study_materials returns None.
C12_SchemaEnforced ==
  (pc = "generated" /\ ~Conforms(study_response)) => content.is_none

\* C13: generate_study_materials returns None when the service raises or
\* its answer cannot be parsed, and otherwise a record whose title,
\* study_guide, flashcards and exercises are all there, the last three taken
\* from the response; generate_downloads is called only for a record.
C13_NoPartialRecord ==
  pc = "generated" =>
    /\ study_response.kind \in {"raises", "malformed"} => content.is_none
    /\ ~content.is_none =>
         /\ study_response.kind = "object"
         /\ {"study_guide", "flashcards", "exercises"} \subseteq study_response.keys
         /\ content.title # <<>>
         /\ content.study_guide = study_response.study_guide
         /\ IsPrefix(content.flashcards, study_response.flashcards)
         /\ IsPrefix(content.exercises, study_response.exercises)
    /\ downloads = ~content.is_none

\* a response without "exercises" gave None and no export; the service
\* answered the request
C13_Witness ==
  /\ pc = "generated"
  /\ study_response.kind = "object"
  /\ "exercises" \notin study_response.keys
  /\ content.is_none
  /\ ~downloads
  /\ request.sent

\* C14: the topic gate of the study-material tab and document admission
\* consult the same keyword set: no keyword is in one and missing from the
\* other, so a topic is accepted exactly when a one-page document with that
\* text is admitted.
C14_SharedKeywordSet ==
  (entry = "study" /\ study_topic # <<>>) =>
    ((pc # "refused") <=> is_nlp_relevant(<< <<study_topic, 1>> >>))

\* text[i..j] is a whitespace-delimited token of text
IsToken(text, i, j) ==
  /\ i <= j
  /\ \A n \in i..j : ~IsWhitespace(text[n])
  /\ i = 1 \/ IsWhitespace(text[i - 1])
  /\ j = Len(text) \/ IsWhitespace(text[j + 1])

HasKeywordToken(text) ==
  \E i, j \in 1..Len(text) :
    IsToken(text, i, j) /\ \E keyword \in nlp_keywords : Lower(SubSeq(text, i, j)) = keyword

\* C15: is_topic_nlp(t) is true exactly when a whitespace-delimited token of
\* t, lower-cased, is a member of nlp_keywords; and then is_nlp_relevant is
\* true of the single page t.
C15_TokenMode ==
  call.pc = "done" =>
    /\ call.result <=> HasKeywordToken(call.user_input)
    /\ call.result => is_nlp_relevant(<< <<call.user_input, 1>> >>)

\* an upper-case keyword between other words was found as a token
C15_Witness ==
  /\ call.pc = "done"
  /\ call.user_input = <<"c","a","t"," ","N","L","P">>
  /\ call.result

\* a keyword inside a longer token: substring mode accepts, token mode does not
C15_WitnessSubstringOnly ==
  /\ call.pc = "done"
  /\ call.user_input = <<"n","l","p",".">>
  /\ ~call.result
  /\ is_nlp_relevant(<< <<call.user_input, 1>> >>)

\* C16: the three rewrites of parse_pdf, applied to a page text they have
\* produced, return it unchanged.
C16_NormalizeIdempotent ==
  call.pc = "done" =>
    \A i \in 1..Len(call.result) : Normalize(call.result[i][1]) = call.result[i][1]

\* the blank-line separations of a text: the whitespace runs between two
\* text blocks that hold two line breaks or more
ParagraphBreaks(text) ==
  Cardinality({i \in 1..Len(text) :
                 /\ ~IsSpace(text[i])
                 /\ i + 1 <= Len(text)
                 /\ IsSpace(text[i + 1])
                 /\ SpaceRunEnd(text, i + 1) < Len(text)
                 /\ Cardinality({j \in (i + 1)..SpaceRunEnd(text, i + 1) : text[j] = "\n"}) >= 2})

\* every line break of text stands next to another one
NoSingleNewline(text) ==
  \A i \in 1..Len(text) :
    text[i] = "\n" => \/ (i > 1 /\ text[i - 1] = "\n")
                      \/ (i < Len(text) /\ text[i + 1] = "\n")

\* C17: in the output of parse_pdf no single line break is left, every
\* blank-line separation of the extracted text (the plain two-newline form
\* included) is exactly one blank line, and there are never three
\* consecutive line breaks.
C17_ParagraphBreaksKept ==
  call.pc = "done" =>
    \A i \in 1..Len(call.result) :
      /\ NoSingleNewline(call.result[i][1])
      /\ Occurrences(call.result[i][1], <<"\n", "\n">>) = ParagraphBreaks(call.file.pages[i])
      /\ ~Contains(call.result[i][1], <<"\n", "\n", "\n">>)

\* the passages of the admitted documents of a batch, in batch order
RECURSIVE ExpectedOfBatch(_, _)
ExpectedOfBatch(files, filenames) ==
  IF files = <<>> THEN <<>>
  ELSE Expected(Head(files), Head(filenames)) \o ExpectedOfBatch(Tail(files), Tail(filenames))

\* C19: a call of get_chroma_index_for_pdf leaves every stored passage where
\* it was and appends the passages of the batch's admitted documents, also
\* those already stored; a batch without an admitted document leaves the
\* collection unchanged.
C19_InsertionAdditive ==
  [][ /\ IsPrefix(collection, collection')
      /\ (call'.n > call.n /\ ~build'.raised) =>
           collection' = collection \o ExpectedOfBatch(build'.files, build'.filenames)
      /\ (call'.n > call.n /\ \A i \in 1..Len(build'.files) : ~Admitted(build'.files[i])) =>
           collection' = collection ]_vars

\* the last call stored again a passage that was stored before
C19_Witness ==
  /\ call.pc = "calls"
  /\ build.called
  /\ Len(collection) > Len(build.before)
  /\ \E i \in 1..Len(build.before) :
       \E j \in (Len(build.before) + 1)..Len(collection) : collection[i] = collection[j]

\* a call with a batch of one rejected document left a filled collection as it was
C19_WitnessNothingAdmitted ==
  /\ call.pc = "calls"
  /\ build.called
  /\ ~build.raised
  /\ Len(build.files) = 1
  /\ ~Admitted(build.files[1])
  /\ collection # <<>>
  /\ collection = build.before

\* the positions in docs of the passages of page p
OfPage(docs, p) == {n \in 1..Len(docs) : docs[n].metadata.page = p}

\* C20: every passage text_to_docs makes of the pages of parse_pdf carries
\* the document's name, the 1-based number of the page its text is part of
\* and its index among that page's chunks; the chunk indices of a page are
\* exactly 0..n-1; passages come in page order, then chunk order.
C20_Provenance ==
  call.pc = "done" =>
    /\ \A n \in 1..Len(call.result) :
         /\ call.result[n].metadata.filename = call.filename
         /\ call.result[n].metadata.page \in 1..Len(call.file.pages)
         /\ Contains(Normalize(call.file.pages[call.result[n].metadata.page]),
                     call.result[n].page_content)
    /\ \A p \in 1..Len(call.file.pages) :
         /\ {call.result[n].metadata.chunk : n \in OfPage(call.result, p)}
              = 0..(Cardinality(OfPage(call.result, p)) - 1)
         /\ (Strip(Normalize(call.file.pages[p])) # <<>>) <=> (OfPage(call.result, p) # {})
    /\ \A n \in 1..(Len(call.result) - 1) :
         \/ call.result[n].metadata.page < call.result[n + 1].metadata.page
         \/ /\ call.result[n].metadata.page = call.result[n + 1].metadata.page
            /\ call.result[n + 1].metadata.chunk = call.result[n].metadata.chunk + 1

\* a first page of two chunks, a blank second page and a third page of
\* three chunks whose indices start at 0 again
C20_Witness ==
  /\ call.pc = "done"
  /\ Len(call.file.pages) = 3
  /\ Cardinality(OfPage(call.result, 1)) = 2
  /\ OfPage(call.result, 2) = {}
  /\ Cardinality(OfPage(call.result, 3)) = 3
  /\ call.result[3].metadata = [filename |-> call.filename, page |-> 3, chunk |-> 0]

\* the document is admitted and chunked without an error
Succeeds(file) == Admitted(file) /\ ~file.unsplittable

\* the names of the batch whose documents do (or do not) succeed, in batch order
RECURSIVE NamesWhere(_, _, _)
NamesWhere(files, filenames, succeed) ==
  IF files = <<>> THEN <<>>
  ELSE (IF Succeeds(Head(files)) = succeed THEN <<Head(filenames)>> ELSE <<>>)
         \o NamesWhere(Tail(files), Tail(filenames), succeed)

\* C21: when get_chroma_index_for_pdf returns, every pair of the batch has
\* put its name in exactly one of flagged_files and successful_files, both
\* in batch order, and the passages handed to add_documents are those of the
\* documents named in successful_files and no others.
C21_ListsPartitionBatch ==
  (build.called /\ ~build.raised) =>
    /\ build.lists.successful_files = NamesWhere(build.files, build.filenames, TRUE)
    /\ build.lists.flagged_files = NamesWhere(build.files, build.filenames, FALSE)
    /\ Len(build.lists.successful_files) + Len(build.lists.flagged_files) = Len(build.files)
    /\ build.lists.documents = ExpectedOfBatch(build.files, build.filenames)
    /\ \A n \in 1..Len(build.lists.documents) :
         build.lists.documents[n].metadata.filename \in Names(build.lists.successful_files)

\* a batch of three: a document the splitter raises on between two admitted ones
C21_Witness ==
  /\ build.called
  /\ ~build.raised
  /\ Len(build.files) = 3
  /\ build.files[2].unsplittable
  /\ Len(build.lists.successful_files) = 2
  /\ build.lists.flagged_files = <<build.filenames[2]>>
  /\ build.lists.documents # <<>>

\* C22: on every record generate_study_materials returns, generate_downloads
\* finds every field its renderers read and completes.
C22_ExportsComplete ==
  (pc = "generated" /\ downloads) => download_error = None

\* C23: the chat history alternates user, assistant, user, assistant, ...,
\* and the last message of every chat request is the user prompt just
\* appended.
C23_RolesAlternate ==
  /\ \A i \in 1..Len(chat_history) :
       chat_history[i].role = (IF i % 2 = 1 THEN "user" ELSE "assistant")
  /\ (entry = "main" /\ pc = "streaming") =>
       /\ chat_history[Len(chat_history)].role = "user"
       /\ request.messages[Len(request.messages)] = chat_history[Len(chat_history)]

\* C24: once the sidebar has been drawn, every name listed under "Current
\* Learning Materials" is the name of a document with passages in the
\* collection, and after a failed build no name is listed.
C24_ShownMaterialsAreStored ==
  pc = "tabs" =>
    /\ \A name \in current_files(flagged_files) : PassagesOf(collection, name) # {}
    /\ vectordb = None => current_files(flagged_files) = {}

====
